---- MODULE Spec2Model ----
(***************************************************************************)
(* Fastboot USB client (NusbFastBoot) and its download streamer            *)
(* (DataDownload), fastboot-protocol/src/nusb.rs.                          *)
(*                                                                         *)
(* One client, used by one task.  Every USB transfer the client awaits is  *)
(* one step of the model: the command's bulk-out, each bulk-in read, each  *)
(* reaped payload completion.  A transfer's status and the bytes a bulk-in *)
(* delivers are inputs chosen by the environment.                          *)
(*                                                                         *)
(* Beside it: from_interface, which opens the client on an interface       *)
(* (SpecOpen), and the expand and split commands of the asparseimg tool,   *)
(* android-sparse-image/examples/asparseimg.rs (SpecExpand, SpecSplit).    *)
(* Files are sequences of 32-bit words; split_image and the header codec   *)
(* belong to the android_sparse_image library.                             *)
(***************************************************************************)
EXTENDS Integers, Sequences, FiniteSets, TLC

(* ------------------------------ bounds --------------------------------- *)
\* width of the model's "u32" (size, left, IncorrectDataLength fields)
U32Bits == 4
\* scaled stand-in for the 1 MiB base size of a streamer buffer
BufferBytes == 3
\* OUT endpoint max packet sizes range over 1..MaxPacket
MaxPacket == 2
\* sizes a device announces in DATA / a caller requests in download
SmallSize == 2
MaxSize == 13
\* longest slice handed to extend_from_slice, largest max of get_mut_data
MaxLen == 17
MaxMax == 4
\* cap on the bytes a caller supplies to one streamer
MaxTotal == 19
\* cap on the bulk-in reads of one operation
MaxReads == 3
\* reads kept in the log of a call that may go on for ever
LiveReads == 1
\* endpoints of one alternate setting, alternate settings of one interface
MaxEndpoints == 3
MaxAlts == 2
\* chunks of a sparse image, blocks of a chunk, words of a block
MaxChunks == 2
MaxBlocks == 2
MaxBlockWords == 2
\* words of the file an expand overwrites
MaxOld == 5
\* split sizes run from one word under the smallest accepted to MaxExtra
\* words over it
MaxExtra == 4

(* ----------------------------- constants ------------------------------- *)
\* next_buffer allocates while fewer than this many transfers are pending
QueueDepth == 3

RECURSIVE Pow2(_)
Pow2(n) == IF n = 0 THEN 1 ELSE 2 * Pow2(n - 1)

U32Mod == Pow2(U32Bits)

\* `x as u32`
AsU32(x) == x % U32Mod

Min(a, b) == IF a <= b THEN a ELSE b

\* usize::next_multiple_of
NextMultipleOf(x, m) == ((x + m - 1) \div m) * m

(* --------------------------- strings ----------------------------------- *)
\* Strings are sequences of one-character strings.

\* char::is_whitespace, on the characters used here
IsSpace(c) == c = " "

RECURSIVE TrimStart(_)
TrimStart(s) == IF s # <<>> /\ IsSpace(Head(s)) THEN TrimStart(Tail(s)) ELSE s

RECURSIVE TrimEnd(_)
TrimEnd(s) ==
    IF s # <<>> /\ IsSpace(s[Len(s)]) THEN TrimEnd(SubSeq(s, 1, Len(s) - 1)) ELSE s

\* str::trim
Trim(s) == TrimEnd(TrimStart(s))

\* positions of c in s
Positions(s, c) == {i \in 1..Len(s) : s[i] = c}

Max(S) == CHOOSE x \in S : \A y \in S : y <= x

Min1(S) == CHOOSE x \in S : \A y \in S : x <= y

\* str::split_once(':') : the split at the first colon
SplitOnce(s) ==
    IF Positions(s, ":") = {}
    THEN [some |-> FALSE]
    ELSE LET p == Min1(Positions(s, ":"))
         IN  [some |-> TRUE, key |-> SubSeq(s, 1, p - 1), value |-> SubSeq(s, p + 1, Len(s))]

\* str::rsplit_once(':') : None, or (before the last colon, after it)
RSplitOnce(s) ==
    IF Positions(s, ":") = {}
    THEN [some |-> FALSE]
    ELSE LET p == Max(Positions(s, ":"))
         IN  [some |-> TRUE, key |-> SubSeq(s, 1, p - 1), value |-> SubSeq(s, p + 1, Len(s))]

(* ------------------------ responses on the wire ------------------------ *)
\* INFO payloads a device may send
InfoLines ==
    { <<"a", ":", "b">>,
      <<"a", ":", "c">>,
      <<" ", "a", ":", "b", ":", " ", "c", " ">>,
      <<"h", "i">> }

OkayValues == { <<>>, <<"v", "a", "l", "u", "e">> }
FailReasons == { <<"r">> }
DataSizes == {0, SmallSize, MaxSize}

\* What one bulk-in transfer carries: a 4-letter prefix and a payload; DATA's
\* payload is 8 hex digits, held here as the number they spell (-1: not hex).
Wire ==
    [prefix : {"INFO"}, text : InfoLines, num : {0}]
    \cup [prefix : {"TEXT"}, text : {<<"t">>}, num : {0}]
    \cup [prefix : {"DATA"}, text : {<<>>}, num : DataSizes \cup {-1}]
    \cup [prefix : {"OKAY"}, text : OkayValues, num : {0}]
    \cup [prefix : {"FAIL"}, text : FailReasons, num : {0}]
    \cup [prefix : {"JUNK", ""}, text : {<<>>}, num : {0}]

\* FastBootResponse::from_bytes
FromBytes(w) ==
    CASE w.prefix = "INFO" -> [kind |-> "Info", text |-> w.text, num |-> 0]
      [] w.prefix = "TEXT" -> [kind |-> "Text", text |-> w.text, num |-> 0]
      [] w.prefix = "OKAY" -> [kind |-> "Okay", text |-> w.text, num |-> 0]
      [] w.prefix = "FAIL" -> [kind |-> "Fail", text |-> w.text, num |-> 0]
      [] w.prefix = "DATA" /\ w.num >= 0 -> [kind |-> "Data", text |-> <<>>, num |-> w.num]
      [] OTHER -> [kind |-> "ParseError", text |-> <<>>, num |-> 0]

Statuses == {"ok", "err"}

(* ------------------------------ results -------------------------------- *)
None == [tag |-> "None"]
OkStr(v) == [tag |-> "Ok", val |-> v]
OkUnit == [tag |-> "Ok", unit |-> TRUE]
OkMap(m) == [tag |-> "Ok", map |-> m]
OkStreamer == [tag |-> "Ok", streamer |-> TRUE]
Panic == [tag |-> "Panic"]
Transfer == [tag |-> "Err", err |-> "Transfer"]
FastbootFailed(r) == [tag |-> "Err", err |-> "FastbootFailed", reason |-> r]
FastbootUnexpectedReply == [tag |-> "Err", err |-> "FastbootUnexpectedReply"]
FastbootParseError == [tag |-> "Err", err |-> "FastbootParseError"]
IncorrectDataLength(e, a) ==
    [tag |-> "Err", err |-> "IncorrectDataLength", expected |-> e, actual |-> a]

(* ------------------------------- state --------------------------------- *)
VARIABLES
    max_out,     \* NusbFastBoot.max_out
    pc,          \* where the client's task is
    op,          \* the public call in progress, or the last one made
    result,      \* what the last public call returned (None while it runs)
    ret,         \* what execute / handle_responses returned inside that call
    reads,       \* the responses read_response handed back during the call
    usb,         \* the USB transfers the call awaited or submitted, in order
    varsMap,     \* get_all_vars: vars
    exists,      \* a DataDownload is alive
    requested,   \* the size passed to download
    size,        \* DataDownload.size
    left,        \* DataDownload.left
    current,     \* DataDownload.current, its bytes
    capacity,    \* DataDownload.current.capacity()
    queue,       \* DataDownload.queue: pending transfers, oldest first
    data,        \* extend_from_slice: the rest of the caller's slice
    submitted,   \* every buffer given to queue.submit, in order
    accepted,    \* bytes the caller handed over in calls that passed update_size
    failed       \* a transfer awaited for this streamer reported an error

\* the state of what runs beside the client's calls: opening the client
VARIABLES
    interface,   \* nusb::Interface: its alternate settings' endpoint descriptors
    opened       \* what from_interface returned (None before the call)

\* the state of one run of the asparseimg tool (expand or split)
VARIABLES
    image,       \* the sparse image the input file was written from
    file,        \* the input file, in 32-bit words
    filepos,     \* file's position, in words
    header,      \* the decoded FileHeader (None before it is read)
    todo,        \* rounds the `for _ in 0..header.chunks` loop still has to make
    output,      \* expand: the output file, in words
    outpos,      \* expand: output's position, in words
    tpc,         \* where the tool is
    status,      \* what the tool's function returned (None while it runs)
    chunks,      \* split: the chunk headers scanned so far
    split_size,  \* split: its size argument, the most bytes a fragment may have
    splits,      \* split: what split_image returned
    outs         \* split: the files <out>.0, <out>.1, .. written so far, in words

splitv == << chunks, split_size, splits, outs >>

sparse ==
    << image, file, filepos, header, todo, output, outpos, tpc, status, splitv >>

tool == << interface, opened, sparse >>

vars ==
    << max_out, pc, op, result, ret, reads, usb, varsMap, exists, requested,
       size, left, current, capacity, queue, data, submitted, accepted, failed,
       tool >>

client == << max_out, varsMap >>
streamer ==
    << exists, requested, size, left, current, capacity, queue, data,
       submitted, accepted, failed >>

(* --------------------------- sparse image format ----------------------- *)
\* lengths of the two headers, in bytes
FILE_HEADER_BYTES_LEN == 28
CHUNK_HEADER_BYTES_LEN == 12
\* FileHeader.magic, 0xED26FF3A, without its top bit: a word of the model's
\* files has 31 bits
Magic == 1831272250
\* ChunkType codes
Raw == 51905
Fill == 51906
DontCare == 51907
Crc32 == 51908

\* bytes per word of the model's files
WordBytes == 4
\* the two u16 halves of a little-endian word
Lo16(w) == w % 65536
Hi16(w) == w \div 65536
Pack16(lo, hi) == lo + 65536 * hi

StructuralError == [tag |-> "Err", err |-> "StructuralError"]
UnexpectedEof == [tag |-> "Err", err |-> "UnexpectedEof"]

\* a chunk of an image: its type and the blocks it stands for
ChunkOptions ==
    { [chunk_type |-> t, chunk_size |-> n] : t \in {Raw, Fill, DontCare}, n \in 1..MaxBlocks }
        \cup { [chunk_type |-> Crc32, chunk_size |-> 0] }

\* the valid images: a block size and up to MaxChunks chunks
Images ==
    { [block_size |-> WordBytes * w, chunks |-> cs] :
        w \in 1..MaxBlockWords,
        cs \in UNION { [1..n -> ChunkOptions] : n \in 0..MaxChunks } }

RECURSIVE SumBlocks(_)
SumBlocks(cs) == IF cs = <<>> THEN 0 ELSE Head(cs).chunk_size + SumBlocks(Tail(cs))

\* ChunkHeader::data_size of a chunk of an image with blocks of bs bytes
PayloadBytes(c, bs) ==
    CASE c.chunk_type = Raw -> c.chunk_size * bs
      [] c.chunk_type = Fill -> 4
      [] c.chunk_type = DontCare -> 0
      [] OTHER -> 4

\* the k-th payload word of the i-th chunk: every payload word of a file is
\* different, and none is zero
PayloadWord(i, k) == 64 * i + k

\* FileHeader::to_bytes
FileHeaderToBytes(h) ==
    << h.magic, Pack16(h.major_version, h.minor_version),
       Pack16(h.file_hdr_size, h.chunk_hdr_size),
       h.block_size, h.blocks, h.chunks, h.checksum >>

\* FileHeader::from_bytes
FileHeaderFromBytes(ws) ==
    IF /\ ws[1] = Magic
       /\ Lo16(ws[2]) = 1
       /\ Lo16(ws[3]) = FILE_HEADER_BYTES_LEN
       /\ Hi16(ws[3]) = CHUNK_HEADER_BYTES_LEN
       /\ ws[4] % 4 = 0
    THEN [tag |-> "Ok", magic |-> ws[1],
          major_version |-> Lo16(ws[2]), minor_version |-> Hi16(ws[2]),
          file_hdr_size |-> Lo16(ws[3]), chunk_hdr_size |-> Hi16(ws[3]),
          block_size |-> ws[4], blocks |-> ws[5], chunks |-> ws[6],
          checksum |-> ws[7]]
    ELSE StructuralError

\* ChunkHeader::to_bytes
ChunkHeaderToBytes(c) == << Pack16(c.chunk_type, 0), c.chunk_size, c.total_size >>

\* ChunkHeader::from_bytes
ChunkHeaderFromBytes(ws) ==
    LET type == Lo16(ws[1])
        data_size == ws[3] - CHUNK_HEADER_BYTES_LEN
    IN  IF /\ type \in {Raw, Fill, DontCare, Crc32}
           /\ data_size >= 0
           /\ type = Fill => data_size = 4
           /\ type = DontCare => data_size = 0
           /\ type = Crc32 => data_size = 4
        THEN [tag |-> "Ok", chunk_type |-> type, chunk_size |-> ws[2],
              total_size |-> ws[3]]
        ELSE StructuralError

\* ChunkHeader::out_size, ChunkHeader::data_size
OutSize(c, h) == c.chunk_size * h.block_size
DataSize(c) == c.total_size - CHUNK_HEADER_BYTES_LEN

\* the header of an image, and the header of its i-th chunk
HeaderOf(img) ==
    [tag |-> "Ok", magic |-> Magic, major_version |-> 1, minor_version |-> 0,
     file_hdr_size |-> FILE_HEADER_BYTES_LEN, chunk_hdr_size |-> CHUNK_HEADER_BYTES_LEN,
     block_size |-> img.block_size, blocks |-> SumBlocks(img.chunks),
     chunks |-> Len(img.chunks), checksum |-> 0]

ChunkHeaderOf(img, i) ==
    [tag |-> "Ok", chunk_type |-> img.chunks[i].chunk_type,
     chunk_size |-> img.chunks[i].chunk_size,
     total_size |-> CHUNK_HEADER_BYTES_LEN + PayloadBytes(img.chunks[i], img.block_size)]

\* the words of the chunks i.. of an image as a sparse file holds them
RECURSIVE ChunkWords(_, _)
ChunkWords(img, i) ==
    IF i > Len(img.chunks) THEN <<>>
    ELSE ChunkHeaderToBytes(ChunkHeaderOf(img, i))
            \o [k \in 1..(PayloadBytes(img.chunks[i], img.block_size) \div WordBytes)
                    |-> PayloadWord(i, k)]
            \o ChunkWords(img, i + 1)

\* the sparse file of an image
FileOf(img) == FileHeaderToBytes(HeaderOf(img)) \o ChunkWords(img, 1)

\* no tool run
SparseIdle ==
    /\ image = [block_size |-> WordBytes, chunks |-> <<>>]
    /\ file = <<>>
    /\ filepos = 0
    /\ header = None
    /\ todo = 0
    /\ output = <<>>
    /\ outpos = 0
    /\ tpc = "none"
    /\ status = None
    /\ chunks = <<>>
    /\ split_size = 0
    /\ splits = <<>>
    /\ outs = <<>>

(* ---------------------------- opening the client ----------------------- *)
\* one endpoint descriptor of an alternate setting
Endpoint(addr, dir, type, mps) ==
    [address |-> addr, direction |-> dir, transfer_type |-> type,
     max_packet_size |-> mps]

\* the endpoints alternate settings are built from: two bulk OUT with
\* different packet sizes, one bulk IN, one interrupt IN
EndpointPool ==
    { Endpoint(1, "Out", "Bulk", 1), Endpoint(2, "Out", "Bulk", MaxPacket),
      Endpoint(129, "In", "Bulk", MaxPacket), Endpoint(131, "In", "Interrupt", 1) }

\* sequences of at most n distinct members of S
RECURSIVE Arrangements(_, _)
Arrangements(S, n) ==
    IF n = 0 THEN { <<>> }
    ELSE LET shorter == Arrangements(S, n - 1)
         IN  shorter \cup { Append(a, e) : a \in shorter, e \in S }

Distinct(a) == \A i, j \in 1..Len(a) : i # j => a[i].address # a[j].address

\* alt.endpoints() of the alternate settings an interface may have
AltSettings == { a \in Arrangements(EndpointPool, MaxEndpoints) : Distinct(a) }

\* interface.descriptors(): one to MaxAlts alternate settings
Interfaces ==
    UNION { [1..n -> AltSettings] : n \in 1..MaxAlts }

\* the interface of a fastboot gadget: one setting, one bulk pair
Gadget(mps) ==
    << << Endpoint(1, "Out", "Bulk", mps), Endpoint(129, "In", "Bulk", mps) >> >>

MissingEndpoints == [tag |-> "Err", err |-> "MissingEndpoints"]

\* alt.endpoints().find_map(..): the bulk endpoints of one direction, in
\* descriptor order
BulkEndpoints(alt, dir) ==
    { i \in 1..Len(alt) : alt[i].transfer_type = "Bulk" /\ alt[i].direction = dir }

\* find_map that stops at the last match instead of the first
LastBulk(alt, dir) == alt[Max(BulkEndpoints(alt, dir))]

\* find_map: the first endpoint the closure accepts
FirstBulk(alt, dir) == alt[Min1(BulkEndpoints(alt, dir))]

\* the closure given to descriptors().find_map: Some iff both `?` pass
HasBulkPair(alt) == BulkEndpoints(alt, "Out") # {} /\ BulkEndpoints(alt, "In") # {}

\* from_interface
FromInterface(ifc) ==
    LET found == { a \in 1..Len(ifc) : HasBulkPair(ifc[a]) }
    IN  IF found = {} THEN MissingEndpoints
        ELSE LET alt == ifc[Min1(found)]
                 out == FirstBulk(alt, "Out")
                 in  == FirstBulk(alt, "In")
             IN  [tag |-> "Ok", ep_out |-> out.address,
                  max_out |-> out.max_packet_size,
                  ep_in |-> in.address, max_in |-> in.max_packet_size]

\* no call made yet on the client
Pristine ==
    /\ pc = "idle"
    /\ op = [fn |-> "none"]
    /\ result = None
    /\ ret = None
    /\ reads = <<>>
    /\ usb = <<>>
    /\ varsMap = <<>>
    /\ exists = FALSE
    /\ requested = 0
    /\ size = 0
    /\ left = 0
    /\ current = <<>>
    /\ capacity = 0
    /\ queue = <<>>
    /\ data = <<>>
    /\ submitted = <<>>
    /\ accepted = 0
    /\ failed = FALSE

\* from_interface, called on an interface not opened yet
CallFromInterface ==
    /\ opened = None
    /\ opened' = FromInterface(interface)
    /\ max_out' = IF opened'.tag = "Ok" THEN opened'.max_out ELSE max_out
    /\ UNCHANGED << interface, sparse, pc, op, result, ret, reads, usb, varsMap, streamer >>

InitOpen ==
    /\ interface \in Interfaces
    /\ opened = None
    /\ max_out = 0
    /\ Pristine
    /\ SparseIdle

SpecOpen == InitOpen /\ [][CallFromInterface]_vars

\* a client opened on a fastboot gadget, no call made yet
Init ==
    /\ \E mps \in 1..MaxPacket : interface = Gadget(mps)
    /\ opened = FromInterface(interface)
    /\ max_out = opened.max_out
    /\ SparseIdle
    /\ pc = "idle"
    /\ op = [fn |-> "none"]
    /\ result = None
    /\ ret = None
    /\ reads = <<>>
    /\ usb = <<>>
    /\ varsMap = <<>>
    /\ exists = FALSE
    /\ requested = 0
    /\ size = 0
    /\ left = 0
    /\ current = <<>>
    /\ capacity = 0
    /\ queue = <<>>
    /\ data = <<>>
    /\ submitted = <<>>
    /\ accepted = 0
    /\ failed = FALSE


(* ------------------------------ commands ------------------------------- *)
\* FastBootCommand values the public wrappers build
GetVar(name) == [name |-> "GetVar", arg |-> name, num |-> 0]
Download(n) == [name |-> "Download", arg |-> <<>>, num |-> n]
Flash(target) == [name |-> "Flash", arg |-> target, num |-> 0]
Erase(target) == [name |-> "Erase", arg |-> target, num |-> 0]
Reboot == [name |-> "Reboot", arg |-> <<>>, num |-> 0]
RebootBootloader == [name |-> "RebootBootloader", arg |-> <<>>, num |-> 0]

All == <<"a", "l", "l">>

\* impl Display for FastBootCommand: the bytes of the command's bulk-out
\* (hex8: the number Download writes as 8 hex digits, -1 for no number)
Serialize(cmd) ==
    CASE cmd.name = "GetVar" -> [text |-> <<"getvar:">> \o cmd.arg, hex8 |-> -1]
      [] cmd.name = "Download" -> [text |-> <<"download:">>, hex8 |-> cmd.num]
      [] cmd.name = "Flash" -> [text |-> <<"flash:">> \o cmd.arg, hex8 |-> -1]
      [] cmd.name = "Erase" -> [text |-> <<"erase:">> \o cmd.arg, hex8 |-> -1]
      [] cmd.name = "Reboot" -> [text |-> <<"reboot">>, hex8 |-> -1]
      [] OTHER -> [text |-> <<"reboot-bootloader">>, hex8 |-> -1]

\* the public calls that go through execute, with the command each builds
ExecuteCalls ==
    { [fn |-> "get_var", cmd |-> GetVar(<<"x">>)],
      [fn |-> "flash", cmd |-> Flash(<<"p">>)],
      [fn |-> "erase", cmd |-> Erase(<<"p">>)],
      [fn |-> "reboot", cmd |-> Reboot],
      [fn |-> "reboot_bootloader", cmd |-> RebootBootloader] }

ExecuteFns == {c.fn : c \in ExecuteCalls}

(* ------------------------- USB events of a call ------------------------ *)
BulkOut(bytes, st) == [ev |-> "bulk_out", st |-> st, bytes |-> bytes]
BulkIn(st) == [ev |-> "bulk_in", st |-> st]
Submit == [ev |-> "submit", st |-> "ok"]
NextComplete(st) == [ev |-> "next_complete", st |-> st]

(* --------------------------- client: calls ----------------------------- *)
\* A public call starts: nothing of the previous call's bookkeeping is left.
Begin(call) ==
    /\ op' = call
    /\ result' = None
    /\ ret' = None
    /\ reads' = <<>>
    /\ usb' = <<>>

\* the streamer of an earlier download is gone (finish consumed it)
NoStreamer(req) ==
    /\ exists' = FALSE
    /\ requested' = req
    /\ size' = 0
    /\ left' = 0
    /\ current' = <<>>
    /\ capacity' = 0
    /\ queue' = <<>>
    /\ data' = <<>>
    /\ submitted' = <<>>
    /\ accepted' = 0
    /\ failed' = FALSE

\* get_var / flash / erase / reboot / reboot_bootloader are called
CallExecute ==
    /\ pc = "idle"
    /\ ~exists
    /\ \E call \in ExecuteCalls : Begin(call)
    /\ pc' = "send"
    /\ varsMap' = <<>>
    /\ NoStreamer(0)
    /\ UNCHANGED << max_out, tool >>

\* get_all_vars is called
CallGetAllVars ==
    /\ pc = "idle"
    /\ ~exists
    /\ Begin([fn |-> "get_all_vars", cmd |-> GetVar(All)])
    /\ pc' = "send"
    /\ varsMap' = <<>>
    /\ NoStreamer(0)
    /\ UNCHANGED << max_out, tool >>

\* download(size) is called
CallDownload ==
    /\ pc = "idle"
    /\ ~exists
    /\ \E sz \in {SmallSize, MaxSize} :
          /\ Begin([fn |-> "download", cmd |-> Download(sz)])
          /\ NoStreamer(sz)
    /\ pc' = "send"
    /\ varsMap' = <<>>
    /\ UNCHANGED << max_out, tool >>

(* ------------------------ client: transfers ---------------------------- *)
\* A public call returns r (inner is what execute / handle_responses gave).
Return(r, inner) ==
    /\ result' = r
    /\ ret' = inner
    /\ pc' = "idle"

\* the loop a call enters once its command is out
LoopOf(fn) ==
    CASE fn = "download" -> "download"
      [] fn = "get_all_vars" -> "get_all_vars"
      [] OTHER -> "handle_responses"

\* send_data without the `?` on the status
SendDataUnchecked(st) == OkUnit

\* send_data: `bulk_out(..).await.status?`, Ok(()) or the Transfer error
SendData(st) == IF st = "ok" THEN OkUnit ELSE Transfer

\* send_command / send_data: one bulk-out carrying the serialized command
SendCommand ==
    /\ pc = "send"
    /\ \E st \in Statuses :
          /\ usb' = Append(usb, BulkOut(Serialize(op.cmd), st))
          /\ IF SendData(st) = OkUnit
             THEN /\ pc' = LoopOf(op.fn)
                  /\ UNCHANGED << result, ret >>
             ELSE Return(Transfer, IF op.fn \in ExecuteFns THEN Transfer ELSE None)
    /\ UNCHANGED << tool, op, reads, client, streamer >>

\* read_response: one bulk-in; the completion's data is parsed whatever its
\* status says.
ReadResponse(st, w) == FromBytes(w)

\* handle_responses with a TEXT that ends the command
HandleResponseTextEnds(resp) ==
    CASE resp.kind = "ParseError" -> FastbootParseError
      [] resp.kind = "Info" -> None
      [] resp.kind = "Text" -> OkStr(resp.text)
      [] resp.kind = "Data" -> FastbootUnexpectedReply
      [] resp.kind = "Okay" -> OkStr(resp.text)
      [] OTHER -> FastbootFailed(resp.text)

\* the match of handle_responses: None to go round the loop again
HandleResponse(resp) ==
    CASE resp.kind = "ParseError" -> FastbootParseError
      [] resp.kind = "Info" -> None
      [] resp.kind = "Text" -> None
      [] resp.kind = "Data" -> FastbootUnexpectedReply
      [] resp.kind = "Okay" -> OkStr(resp.text)
      [] OTHER -> FastbootFailed(resp.text)

\* what the public wrapper makes of execute's return:
\* get_var hands it on, the others map the value to ()
Wrap(fn, r) == IF fn # "get_var" /\ r.tag = "Ok" THEN OkUnit ELSE r

\* one bulk-in read of the call, logged
Read(st, w) ==
    /\ Len(reads) < MaxReads
    /\ usb' = Append(usb, BulkIn(st))
    /\ reads' = Append(reads, ReadResponse(st, w))

\* one round of handle_responses inside execute
ExecuteLoop ==
    /\ pc = "handle_responses"
    /\ op.fn \in ExecuteFns
    /\ \E st \in Statuses, w \in Wire :
          /\ Read(st, w)
          /\ LET r == HandleResponse(ReadResponse(st, w))
             IN  IF r = None
                 THEN UNCHANGED << pc, result, ret >>
                 ELSE Return(Wrap(op.fn, r), r)
    /\ UNCHANGED << tool, op, client, streamer >>

\* download's loop taking OKAY for the go-ahead
DownloadResponseOkayStreams(resp) ==
    CASE resp.kind = "ParseError" -> FastbootParseError
      [] resp.kind = "Info" -> None
      [] resp.kind = "Text" -> None
      [] resp.kind = "Data" -> OkStreamer
      [] resp.kind = "Okay" -> OkStreamer
      [] OTHER -> FastbootFailed(resp.text)

\* the match of download's loop
DownloadResponse(resp) ==
    CASE resp.kind = "ParseError" -> FastbootParseError
      [] resp.kind = "Info" -> None
      [] resp.kind = "Text" -> None
      [] resp.kind = "Data" -> OkStreamer
      [] resp.kind = "Okay" -> FastbootUnexpectedReply
      [] OTHER -> FastbootFailed(resp.text)

\* allocate_buffer without the rounding to the packet size
AllocateBufferUnaligned(mo) == BufferBytes

\* DataDownload::allocate_buffer: the capacity of a fresh buffer
AllocateBuffer(mo) == NextMultipleOf(BufferBytes, mo)

\* DataDownload::new taking the size the caller asked for
NewRequested(n) ==
    /\ exists' = TRUE
    /\ size' = requested
    /\ left' = requested
    /\ current' = <<>>
    /\ capacity' = AllocateBuffer(max_out)
    /\ queue' = <<>>
    /\ UNCHANGED << requested, data, submitted, accepted, failed >>

\* DataDownload::new
New(n) ==
    /\ exists' = TRUE
    /\ size' = n
    /\ left' = n
    /\ current' = <<>>
    /\ capacity' = AllocateBuffer(max_out)
    /\ queue' = <<>>
    /\ UNCHANGED << requested, data, submitted, accepted, failed >>

\* one round of download's loop
DownloadLoop ==
    /\ pc = "download"
    /\ \E st \in Statuses, w \in Wire :
          /\ Read(st, w)
          /\ LET resp == ReadResponse(st, w)
                 r == DownloadResponse(resp)
             IN  /\ IF r = None
                    THEN UNCHANGED << pc, result, ret >>
                    ELSE Return(r, None)
                 /\ IF r = OkStreamer THEN New(resp.num) ELSE UNCHANGED streamer
    /\ UNCHANGED << tool, op, client >>

\* HashMap::insert
Insert(m, k, v) == [x \in DOMAIN m \cup {k} |-> IF x = k THEN v ELSE m[x]]

\* the Info arm of get_all_vars
InsertVar(m, line) ==
    LET kv == RSplitOnce(line)
    IN  IF kv.some THEN Insert(m, Trim(kv.key), Trim(kv.value)) ELSE m

\* the match of get_all_vars' loop (m: vars after this response)
GetAllVarsResponse(resp, m) ==
    CASE resp.kind = "ParseError" -> FastbootParseError
      [] resp.kind = "Info" -> None
      [] resp.kind = "Text" -> None
      [] resp.kind = "Data" -> FastbootUnexpectedReply
      [] resp.kind = "Okay" -> OkMap(m)
      [] OTHER -> FastbootFailed(resp.text)

\* one round of get_all_vars' loop
GetAllVarsLoop ==
    /\ pc = "get_all_vars"
    /\ \E st \in Statuses, w \in Wire :
          /\ Read(st, w)
          /\ LET resp == ReadResponse(st, w)
                 m == IF resp.kind = "Info" THEN InsertVar(varsMap, resp.text) ELSE varsMap
                 r == GetAllVarsResponse(resp, m)
             IN  /\ varsMap' = m
                 /\ IF r = None
                    THEN UNCHANGED << pc, result, ret >>
                    ELSE Return(r, None)
    /\ UNCHANGED << tool, op, max_out, streamer >>

(* ------------------------------ streamer ------------------------------- *)
\* the bytes of a call's slice: the caller's k-th byte overall is k
Bytes(from, n) == [i \in 1..n |-> from + i]

\* a Vec<u8> in the queue: its bytes and its capacity
Vec(bytes, cap) == [bytes |-> bytes, cap |-> cap]

\* ResponseBuffer::reuse: the completed transfer's Vec, handed back
Reuse(v) == v

\* Vec::truncate(0)
Truncate0(v) == Vec(<<>>, v.cap)

\* DataDownload::update_size(sz) when sz > left: what the call returns.
\* size - left + self.size is u32 arithmetic: past u32::MAX it panics in a
\* build with overflow checks and wraps in one without.
UpdateSizeErr(sz) ==
    LET actual == sz - left + size
    IN  IF actual < U32Mod
        THEN {IncorrectDataLength(size, actual)}
        ELSE {Panic, IncorrectDataLength(size, actual % U32Mod)}

\* DataDownload::update_size(sz) with the comparison dropped
UpdateSizeUnchecked(sz) == TRUE

\* DataDownload::update_size(sz) succeeds
UpdateSizeOk(sz) == sz <= left

\* DataDownload::next_buffer on current buffer cur of capacity cap and queue q;
\* st is the status of the completion it awaits when QueueDepth are pending
NextBuffer(cur, cap, q, st) ==
    IF Len(q) < QueueDepth
    THEN [ok |-> TRUE, reaped |-> FALSE,
          current |-> <<>>, capacity |-> AllocateBuffer(max_out),
          queue |-> Append(q, Vec(cur, cap))]
    ELSE IF st = "err"
    THEN [ok |-> FALSE, reaped |-> TRUE,
          current |-> cur, capacity |-> cap, queue |-> Tail(q)]
    ELSE LET next == Truncate0(Reuse(Head(q)))
         IN  [ok |-> TRUE, reaped |-> TRUE,
              current |-> next.bytes, capacity |-> next.cap,
              queue |-> Append(Tail(q), Vec(cur, cap))]

\* the USB events of one next_buffer
NextBufferEvents(nb, st) ==
    (IF nb.reaped THEN <<NextComplete(st)>> ELSE <<>>)
        \o (IF nb.ok THEN <<Submit>> ELSE <<>>)

\* a call on the streamer returns; the streamer lives on
ReturnToCaller(r) ==
    /\ result' = r
    /\ pc' = IF r = Panic THEN "panicked" ELSE "idle"

\* extend_from_slice(data) is called with a slice of len bytes:
\* update_size(data.len() as u32)?, then into the loop
CallExtendFromSlice ==
    /\ pc = "idle"
    /\ exists
    /\ \E len \in 0..MaxLen :
          /\ accepted + len <= MaxTotal
          /\ op' = [fn |-> "extend_from_slice", len |-> len,
                    before |-> accepted, left |-> left]
          /\ IF UpdateSizeOk(AsU32(len))
             THEN /\ left' = left - AsU32(len)
                  /\ data' = Bytes(accepted, len)
                  /\ accepted' = accepted + len
                  /\ pc' = "extend_from_slice"
                  /\ result' = None
             ELSE /\ \E r \in UpdateSizeErr(AsU32(len)) : ReturnToCaller(r)
                  /\ UNCHANGED << left, data, accepted >>
    /\ ret' = None
    /\ reads' = <<>>
    /\ usb' = <<>>
    /\ UNCHANGED << tool, client, exists, requested, size, current, capacity, queue,
                    submitted, failed >>

\* one round of extend_from_slice's loop
ExtendLoop ==
    /\ pc = "extend_from_slice"
    /\ LET room == capacity - Len(current)
       IN  IF room >= Len(data)
           THEN /\ current' = current \o data
                /\ data' = <<>>
                /\ ReturnToCaller(OkUnit)
                /\ UNCHANGED << capacity, queue, submitted, failed, usb >>
           ELSE \E st \in Statuses :
                  LET full == current \o SubSeq(data, 1, room)
                      nb == NextBuffer(full, capacity, queue, st)
                  IN  /\ current' = nb.current
                      /\ capacity' = nb.capacity
                      /\ queue' = nb.queue
                      /\ usb' = usb \o NextBufferEvents(nb, st)
                      /\ failed' = (failed \/ ~nb.ok)
                      /\ IF nb.ok
                         THEN /\ submitted' = Append(submitted, [bytes |-> full, by |-> "next_buffer"])
                              /\ data' = SubSeq(data, room + 1, Len(data))
                              /\ UNCHANGED << pc, result >>
                         ELSE /\ data' = <<>>
                              /\ ReturnToCaller(Transfer)
                              /\ UNCHANGED submitted
    /\ UNCHANGED << tool, client, op, ret, reads, exists, requested, size, left, accepted >>

\* get_mut_data(max) is called; the slice it returns is filled by the caller
\* before the streamer is used again (it borrows the streamer mutably)
CallGetMutData ==
    /\ pc = "idle"
    /\ exists
    /\ \E max \in 0..MaxMax, st \in Statuses :
          LET rotate == capacity = Len(current)
              nb == IF rotate
                    THEN NextBuffer(current, capacity, queue, st)
                    ELSE [ok |-> TRUE, reaped |-> FALSE, current |-> current,
                          capacity |-> capacity, queue |-> queue]
              room == nb.capacity - Len(nb.current)
              sz == Min(room, max)
          IN  /\ op' = [fn |-> "get_mut_data", max |-> max, before |-> accepted,
                        left |-> left, len |-> Len(current), rotate |-> rotate]
              /\ capacity' = nb.capacity
              /\ queue' = nb.queue
              /\ usb' = IF rotate THEN NextBufferEvents(nb, st) ELSE <<>>
              /\ failed' = (failed \/ ~nb.ok)
              /\ submitted' = IF rotate /\ nb.ok
                              THEN Append(submitted, [bytes |-> current, by |-> "next_buffer"])
                              ELSE submitted
              /\ IF ~nb.ok
                 THEN /\ ReturnToCaller(Transfer)
                      /\ current' = nb.current
                      /\ UNCHANGED << left, accepted >>
                 ELSE IF UpdateSizeOk(AsU32(sz))
                 THEN /\ accepted + sz <= MaxTotal
                      /\ left' = left - AsU32(sz)
                      /\ current' = nb.current \o Bytes(accepted, sz)
                      /\ accepted' = accepted + sz
                      /\ ReturnToCaller([tag |-> "Ok", slice |-> sz])
                 ELSE /\ \E r \in UpdateSizeErr(AsU32(sz)) : ReturnToCaller(r)
                      /\ current' = nb.current
                      /\ UNCHANGED << left, accepted >>
    /\ ret' = None
    /\ reads' = <<>>
    /\ UNCHANGED << tool, client, exists, requested, size, data >>

\* finish() returns r; self was moved in, so the streamer is gone
FinishReturn(r, inner) ==
    /\ Return(r, inner)
    /\ exists' = FALSE

\* the call before this one was refused by update_size and touched nothing
Refused ==
    /\ op.fn \in {"extend_from_slice", "get_mut_data"}
    /\ result.tag = "Err"
    /\ result.err = "IncorrectDataLength"

\* finish() going straight to handle_responses
FinishNextNoDrain(q) == "handle_responses"

\* finish() after its submit: the while loop over queue.pending(), then
\* handle_responses
FinishNext(q) == IF Len(q) > 0 THEN "drain" ELSE "handle_responses"

\* finish() is called: the length check, then the submit of current
CallFinish ==
    /\ pc = "idle"
    /\ exists
    /\ op' = [fn |-> "finish", left |-> left, len |-> Len(current), pending |-> Len(queue),
              refused |-> Refused]
    /\ reads' = <<>>
    /\ IF left # 0
       THEN /\ FinishReturn(IncorrectDataLength(size, size - left), None)
            /\ usb' = <<>>
            /\ UNCHANGED << current, capacity, queue, submitted >>
       ELSE LET q == IF current # <<>> THEN Append(queue, Vec(current, capacity)) ELSE queue
            IN  /\ IF current # <<>>
                   THEN /\ current' = <<>>
                        /\ capacity' = 0
                        /\ submitted' = Append(submitted, [bytes |-> current, by |-> "finish"])
                        /\ usb' = <<Submit>>
                   ELSE /\ usb' = <<>>
                        /\ UNCHANGED << current, capacity, submitted >>
                /\ queue' = q
                /\ pc' = FinishNext(q)
                /\ result' = None
                /\ ret' = None
                /\ UNCHANGED exists
    /\ UNCHANGED << tool, client, requested, size, left, data, accepted, failed >>

\* one round of finish's while loop: await the oldest pending transfer
FinishDrain ==
    /\ pc = "drain"
    /\ \E st \in Statuses :
          /\ usb' = Append(usb, NextComplete(st))
          /\ queue' = Tail(queue)
          /\ failed' = (failed \/ st = "err")
          /\ IF st = "err"
             THEN FinishReturn(Transfer, None)
             ELSE /\ pc' = FinishNext(Tail(queue))
                  /\ UNCHANGED << result, ret, exists >>
    /\ UNCHANGED << tool, client, op, reads, requested, size, left, current, capacity,
                    data, submitted, accepted >>

\* one round of handle_responses inside finish
FinishLoop ==
    /\ pc = "handle_responses"
    /\ op.fn = "finish"
    /\ \E st \in Statuses, w \in Wire :
          /\ Read(st, w)
          /\ failed' = (failed \/ st = "err")
          /\ LET r == HandleResponse(ReadResponse(st, w))
             IN  IF r = None
                 THEN UNCHANGED << pc, result, ret, exists >>
                 ELSE FinishReturn(IF r.tag = "Ok" THEN OkUnit ELSE r, r)
    /\ UNCHANGED << tool, client, op, requested, size, left, current, capacity, queue,
                    data, submitted, accepted >>

StreamerNext ==
    \/ CallExtendFromSlice
    \/ ExtendLoop
    \/ CallGetMutData
    \/ CallFinish
    \/ FinishDrain
    \/ FinishLoop

ClientNext ==
    \/ CallExecute
    \/ CallGetAllVars
    \/ CallDownload
    \/ SendCommand
    \/ ExecuteLoop
    \/ DownloadLoop
    \/ GetAllVarsLoop

Next == ClientNext \/ StreamerNext

Spec == Init /\ [][Next]_vars

(* -------------------------- client: progress --------------------------- *)
\* How a call goes on for as long as the device likes: the same loops, with
\* a log that keeps only the latest LiveReads reads of the call, so that a
\* loop can go round any number of times.
WithoutFirst(s, ev) ==
    LET i == Min1({k \in 1..Len(s) : s[k].ev = ev})
    IN  SubSeq(s, 1, i - 1) \o SubSeq(s, i + 1, Len(s))

\* one bulk-in read of the call, the oldest logged read giving way to it
ReadOn(st, w) ==
    IF Len(reads) < LiveReads
    THEN /\ usb' = Append(usb, BulkIn(st))
         /\ reads' = Append(reads, ReadResponse(st, w))
    ELSE /\ usb' = Append(WithoutFirst(usb, "bulk_in"), BulkIn(st))
         /\ reads' = Append(Tail(reads), ReadResponse(st, w))

\* one round of handle_responses inside execute
ExecuteLoopOn ==
    /\ pc = "handle_responses"
    /\ op.fn \in ExecuteFns
    /\ \E st \in Statuses, w \in Wire :
          /\ ReadOn(st, w)
          /\ LET r == HandleResponse(ReadResponse(st, w))
             IN  IF r = None
                 THEN UNCHANGED << pc, result, ret >>
                 ELSE Return(Wrap(op.fn, r), r)
    /\ UNCHANGED << tool, op, client, streamer >>

\* one round of handle_responses inside finish
FinishLoopOn ==
    /\ pc = "handle_responses"
    /\ op.fn = "finish"
    /\ \E st \in Statuses, w \in Wire :
          /\ ReadOn(st, w)
          /\ failed' = (failed \/ st = "err")
          /\ LET r == HandleResponse(ReadResponse(st, w))
             IN  IF r = None
                 THEN UNCHANGED << pc, result, ret, exists >>
                 ELSE FinishReturn(IF r.tag = "Ok" THEN OkUnit ELSE r, r)
    /\ UNCHANGED << tool, client, op, requested, size, left, current, capacity, queue,
                    data, submitted, accepted >>

\* execute on the client, and a download streamed and finished
NextLive ==
    \/ CallExecute
    \/ CallDownload
    \/ SendCommand
    \/ ExecuteLoopOn
    \/ DownloadLoop
    \/ CallExtendFromSlice
    \/ ExtendLoop
    \/ CallGetMutData
    \/ CallFinish
    \/ FinishDrain
    \/ FinishLoopOn

\* the response just read is an OKAY or a FAIL
TerminalRead == reads' # <<>> /\ reads'[Len(reads')].kind \in {"Okay", "Fail"}

\* every awaited transfer completes: the command's bulk-out, the completion
\* next_buffer waits for, the completions finish drains and the bulk-in
\* reads of handle_responses
TransfersComplete ==
    /\ WF_vars(SendCommand)
    /\ WF_vars(ExtendLoop)
    /\ WF_vars(FinishDrain)
    /\ WF_vars(ExecuteLoopOn)
    /\ WF_vars(FinishLoopOn)

\* a device that is being read sends an OKAY or a FAIL in the end
DeviceAnswers ==
    /\ WF_vars(ExecuteLoopOn /\ TerminalRead)
    /\ WF_vars(FinishLoopOn /\ TerminalRead)

SpecLive == Init /\ [][NextLive]_vars /\ TransfersComplete /\ DeviceAnswers

\* the transfers complete, the device may send INFO for ever
SpecSilent == Init /\ [][NextLive]_vars /\ TransfersComplete

(* ------------------------- asparseimg: expand -------------------------- *)
\* Read::read_exact of n words at position pos of f
ReadExact(f, pos, n) ==
    IF pos + n <= Len(f)
    THEN [ok |-> TRUE, data |-> SubSeq(f, pos + 1, pos + n), pos |-> pos + n]
    ELSE [ok |-> FALSE, data |-> <<>>, pos |-> Len(f)]

\* (&mut file).take(n) read to its end by io::copy: the words that are there
TakeAll(f, pos, n) ==
    LET got == Min(n, Len(f) - Min(pos, Len(f)))
    IN  [data |-> SubSeq(f, pos + 1, pos + got), pos |-> pos + got]

\* the file out after ws is written at position pos: a hole before pos reads
\* as zeros, and writing nothing leaves the file as it is
WriteAt(out, pos, ws) ==
    IF ws = <<>> THEN out
    ELSE LET base == IF pos <= Len(out) THEN SubSeq(out, 1, pos)
                     ELSE out \o [i \in 1..(pos - Len(out)) |-> 0]
         IN  base \o ws \o SubSeq(out, pos + Len(ws) + 1, Len(out))

\* the words already in an output file of n words
Stale(n) == [i \in 1..n |-> PayloadWord(0, i)]

\* out_size bytes of the fill pattern, written four bytes at a time
FillWords(fill, out_size) == [i \in 1..(out_size \div 4) |-> fill]

\* the tool returns r
ToolReturn(r) ==
    /\ status' = r
    /\ tpc' = "done"

\* expand: open both files, read and decode the file header
ExpandOpen ==
    /\ tpc = "expand"
    /\ LET r == ReadExact(file, 0, FILE_HEADER_BYTES_LEN \div WordBytes)
           h == FileHeaderFromBytes(r.data)
       IN  /\ filepos' = r.pos
           /\ IF ~r.ok THEN ToolReturn(UnexpectedEof) /\ UNCHANGED << header, todo >>
              ELSE IF h.tag # "Ok" THEN ToolReturn(h) /\ UNCHANGED << header, todo >>
              ELSE /\ header' = h
                   /\ todo' = h.chunks
                   /\ tpc' = "expand_chunks"
                   /\ UNCHANGED status
    /\ UNCHANGED << image, file, output, outpos, splitv >>
    /\ UNCHANGED << interface, opened, max_out, pc, op, result, ret, reads, usb, varsMap, streamer >>

\* the Crc32 arm of expand's match: it prints, and reads nothing
ExpandCrc32(f, pos) == [ok |-> TRUE, data |-> <<>>, pos |-> pos]

\* one round of expand's loop over the chunks
ExpandChunk ==
    /\ tpc = "expand_chunks"
    /\ todo > 0
    /\ LET r == ReadExact(file, filepos, CHUNK_HEADER_BYTES_LEN \div WordBytes)
           chunk == ChunkHeaderFromBytes(r.data)
           out_size == OutSize(chunk, header)
       IN  IF ~r.ok
           THEN /\ ToolReturn(UnexpectedEof)
                /\ filepos' = r.pos
                /\ UNCHANGED << output, outpos, todo >>
           ELSE IF chunk.tag # "Ok"
           THEN /\ ToolReturn(chunk)
                /\ filepos' = r.pos
                /\ UNCHANGED << output, outpos, todo >>
           ELSE CASE chunk.chunk_type = Raw ->
                      LET raw == TakeAll(file, r.pos, out_size \div WordBytes)
                      IN  /\ filepos' = raw.pos
                          /\ output' = WriteAt(output, outpos, raw.data)
                          /\ outpos' = outpos + Len(raw.data)
                          /\ todo' = todo - 1
                          /\ UNCHANGED << tpc, status >>
                  [] chunk.chunk_type = Fill ->
                      LET fill == ReadExact(file, r.pos, 1)
                      IN  /\ filepos' = fill.pos
                          /\ IF ~fill.ok
                             THEN /\ ToolReturn(UnexpectedEof)
                                  /\ UNCHANGED << output, outpos, todo >>
                             ELSE LET ws == FillWords(fill.data[1], out_size)
                                  IN  /\ output' = WriteAt(output, outpos, ws)
                                      /\ outpos' = outpos + Len(ws)
                                      /\ todo' = todo - 1
                                      /\ UNCHANGED << tpc, status >>
                  [] chunk.chunk_type = DontCare ->
                      /\ outpos' = outpos + out_size \div WordBytes
                      /\ filepos' = r.pos
                      /\ todo' = todo - 1
                      /\ UNCHANGED << output, tpc, status >>
                  [] OTHER ->
                      /\ filepos' = ExpandCrc32(file, r.pos).pos
                      /\ todo' = todo - 1
                      /\ UNCHANGED << output, outpos, tpc, status >>
    /\ UNCHANGED << image, file, header, splitv >>
    /\ UNCHANGED << interface, opened, max_out, pc, op, result, ret, reads, usb, varsMap, streamer >>

\* the loop is over: flush the BufWriter and return
ExpandFlush ==
    /\ tpc = "expand_chunks"
    /\ todo = 0
    /\ ToolReturn(OkUnit)
    /\ UNCHANGED << image, file, filepos, header, todo, output, outpos, splitv >>
    /\ UNCHANGED << interface, opened, max_out, pc, op, result, ret, reads, usb, varsMap, streamer >>

\* expand run on a sparse file, whole or cut short, and an output path that
\* names no file or a file of MaxOld words
InitExpand ==
    /\ image \in Images
    /\ \E cut \in 0..Len(FileOf(image)) : file = SubSeq(FileOf(image), 1, cut)
    /\ filepos = 0
    /\ header = None
    /\ todo = 0
    /\ output \in { <<>>, Stale(MaxOld) }
    /\ outpos = 0
    /\ tpc = "expand"
    /\ status = None
    /\ chunks = <<>>
    /\ split_size = 0
    /\ splits = <<>>
    /\ outs = <<>>
    /\ interface = Gadget(1)
    /\ opened = None
    /\ max_out = 0
    /\ Pristine

ExpandNext == ExpandOpen \/ ExpandChunk \/ ExpandFlush

SpecExpand == InitExpand /\ [][ExpandNext]_vars

(* ------------------------- asparseimg: split --------------------------- *)
ChunkHeader(type, n, total) ==
    [tag |-> "Ok", chunk_type |-> type, chunk_size |-> n, total_size |-> total]

\* a chunk of a Split: its header, and where its payload is in the source
SplitChunk(hdr, offset, sz) == [header |-> hdr, offset |-> offset, size |-> sz]

PlanInfeasible == [tag |-> "Err", err |-> "PlanInfeasible"]

\* the smallest budget split_image accepts: a file header, a leading
\* DontCare, and a Raw chunk of one block
MinSplitSize(h) == FILE_HEADER_BYTES_LEN + 2 * CHUNK_HEADER_BYTES_LEN + h.block_size

\* the bytes every fragment is charged before its first chunk: the file
\* header and the header of a leading DontCare
FragmentBase == FILE_HEADER_BYTES_LEN + CHUNK_HEADER_BYTES_LEN

\* the scanned chunks cs with the place of their payloads, the first chunk
\* header being at byte at of the source
RECURSIVE WithOffsets(_, _)
WithOffsets(cs, at) ==
    IF cs = <<>> THEN <<>>
    ELSE << SplitChunk(Head(cs), at + CHUNK_HEADER_BYTES_LEN, DataSize(Head(cs))) >>
            \o WithOffsets(Tail(cs), at + Head(cs).total_size)

\* n blocks of the Raw chunk c, from its block from on
RawPart(c, from, n, bs) ==
    SplitChunk(ChunkHeader(Raw, n, CHUNK_HEADER_BYTES_LEN + n * bs),
               c.offset + from * bs, n * bs)

RECURSIVE Blocks(_)
Blocks(cs) == IF cs = <<>> THEN 0 ELSE Head(cs).header.chunk_size + Blocks(Tail(cs))

\* a later fragment led by the chunks of the source, no DontCare before them
NoLeadingDontCare(index, start) == <<>>

\* the synthesized DontCare that leads every fragment but the first: it
\* stands for the start blocks the fragments before it cover
LeadingDontCare(index, start) ==
    IF index = 1 THEN <<>>
    ELSE << SplitChunk(ChunkHeader(DontCare, start, CHUNK_HEADER_BYTES_LEN), 0, 0) >>

\* closing a fragment: its chunks and its rewritten file header
CloseFragment(h, cur) ==
    LET cs == LeadingDontCare(cur.index, cur.start) \o cur.chunks
    IN  [header |-> [h EXCEPT !.chunks = Len(cs), !.blocks = Blocks(cs), !.checksum = 0],
         chunks |-> cs]

\* the fragment after cur
NextFragment(cur) ==
    [chunks |-> <<>>, used |-> FragmentBase,
     start |-> cur.start + Blocks(cur.chunks), index |-> cur.index + 1]

\* the planner's walk over the chunks cs, cur being the fragment it fills
RECURSIVE Plan(_, _, _, _)
Plan(h, cs, cur, max_bytes) ==
    IF cs = <<>>
    THEN IF cur.chunks = <<>> THEN <<>> ELSE << CloseFragment(h, cur) >>
    ELSE LET c == Head(cs)
             need == CHUNK_HEADER_BYTES_LEN + c.size
             room == max_bytes - cur.used - CHUNK_HEADER_BYTES_LEN
             fit == IF room < 0 THEN 0 ELSE room \div h.block_size
         IN  IF cur.used + need <= max_bytes
             THEN Plan(h, Tail(cs),
                       [cur EXCEPT !.chunks = Append(@, c), !.used = @ + need],
                       max_bytes)
             ELSE IF c.header.chunk_type = Raw /\ fit >= 1
             THEN LET full == [cur EXCEPT !.chunks =
                                   Append(@, RawPart(c, 0, fit, h.block_size))]
                      rest == RawPart(c, fit, c.header.chunk_size - fit, h.block_size)
                  IN  << CloseFragment(h, full) >>
                          \o Plan(h, << rest >> \o Tail(cs), NextFragment(full), max_bytes)
             ELSE << CloseFragment(h, cur) >>
                     \o Plan(h, cs, NextFragment(cur), max_bytes)

\* android_sparse_image::split::split_image
SplitImage(h, cs, max_bytes) ==
    IF max_bytes < MinSplitSize(h) THEN PlanInfeasible
    ELSE [tag |-> "Ok",
          splits |-> Plan(h, WithOffsets(cs, FILE_HEADER_BYTES_LEN),
                          [chunks |-> <<>>, used |-> FragmentBase, start |-> 0,
                           index |-> 1],
                          max_bytes)]

\* split: open the image, read and decode the file header
SplitOpen ==
    /\ tpc = "split"
    /\ LET r == ReadExact(file, 0, FILE_HEADER_BYTES_LEN \div WordBytes)
           h == FileHeaderFromBytes(r.data)
       IN  /\ filepos' = r.pos
           /\ IF ~r.ok THEN ToolReturn(UnexpectedEof) /\ UNCHANGED << header, todo >>
              ELSE IF h.tag # "Ok" THEN ToolReturn(h) /\ UNCHANGED << header, todo >>
              ELSE /\ header' = h
                   /\ todo' = h.chunks
                   /\ tpc' = "split_scan"
                   /\ UNCHANGED status
    /\ UNCHANGED << image, file, output, outpos, splitv >>
    /\ UNCHANGED << interface, opened, max_out, pc, op, result, ret, reads, usb, varsMap, streamer >>

\* one round of the scan: a chunk header is read, its payload skipped
SplitScan ==
    /\ tpc = "split_scan"
    /\ todo > 0
    /\ LET r == ReadExact(file, filepos, CHUNK_HEADER_BYTES_LEN \div WordBytes)
           chunk == ChunkHeaderFromBytes(r.data)
       IN  IF ~r.ok
           THEN /\ ToolReturn(UnexpectedEof)
                /\ filepos' = r.pos
                /\ UNCHANGED << chunks, todo >>
           ELSE IF chunk.tag # "Ok"
           THEN /\ ToolReturn(chunk)
                /\ filepos' = r.pos
                /\ UNCHANGED << chunks, todo >>
           ELSE /\ filepos' = r.pos + DataSize(chunk) \div WordBytes
                /\ chunks' = Append(chunks, chunk)
                /\ todo' = todo - 1
                /\ UNCHANGED << tpc, status >>
    /\ UNCHANGED << image, file, header, output, outpos, split_size, splits, outs >>
    /\ UNCHANGED << interface, opened, max_out, pc, op, result, ret, reads, usb, varsMap, streamer >>

\* the scan is over: split_image(&header, &chunks, size)?
SplitPlan ==
    /\ tpc = "split_scan"
    /\ todo = 0
    /\ LET r == SplitImage(header, chunks, split_size)
       IN  IF r.tag # "Ok"
           THEN ToolReturn(r) /\ UNCHANGED splits
           ELSE /\ splits' = r.splits
                /\ tpc' = "split_write"
                /\ UNCHANGED status
    /\ UNCHANGED << image, file, filepos, header, todo, output, outpos, chunks,
                    split_size, outs >>
    /\ UNCHANGED << interface, opened, max_out, pc, op, result, ret, reads, usb, varsMap, streamer >>

\* the loop over split.chunks copying the source to its end, without take
RECURSIVE FragmentChunkWordsToEof(_, _)
FragmentChunkWordsToEof(cs, f) ==
    IF cs = <<>> THEN <<>>
    ELSE ChunkHeaderToBytes(Head(cs).header)
            \o TakeAll(f, Head(cs).offset \div WordBytes, Len(f)).data
            \o FragmentChunkWordsToEof(Tail(cs), f)

\* what the loop over split.chunks writes: each chunk header, each followed
\* by the chunk.size bytes found at chunk.offset of the source
RECURSIVE FragmentChunkWords(_, _)
FragmentChunkWords(cs, f) ==
    IF cs = <<>> THEN <<>>
    ELSE ChunkHeaderToBytes(Head(cs).header)
            \o TakeAll(f, Head(cs).offset \div WordBytes, Head(cs).size \div WordBytes).data
            \o FragmentChunkWords(Tail(cs), f)

\* the file <out>.i of a Split
FragmentFile(split, f) ==
    FileHeaderToBytes(split.header) \o FragmentChunkWords(split.chunks, f)

\* one round of the loop over splits: the next fragment file is written
SplitWrite ==
    /\ tpc = "split_write"
    /\ Len(outs) < Len(splits)
    /\ LET split == splits[Len(outs) + 1]
           last == split.chunks[Len(split.chunks)]
       IN  /\ outs' = Append(outs, FragmentFile(split, file))
           /\ filepos' = IF split.chunks = <<>> THEN filepos
                         ELSE TakeAll(file, last.offset \div WordBytes,
                                      last.size \div WordBytes).pos
    /\ UNCHANGED << image, file, header, todo, output, outpos, tpc, status, chunks,
                    split_size, splits >>
    /\ UNCHANGED << interface, opened, max_out, pc, op, result, ret, reads, usb, varsMap, streamer >>

\* every fragment is written: split returns
SplitDone ==
    /\ tpc = "split_write"
    /\ Len(outs) = Len(splits)
    /\ ToolReturn(OkUnit)
    /\ UNCHANGED << image, file, filepos, header, todo, output, outpos, splitv >>
    /\ UNCHANGED << interface, opened, max_out, pc, op, result, ret, reads, usb, varsMap, streamer >>

\* the sizes split is run with on an image of block size bs
SplitSizes(bs) ==
    { FILE_HEADER_BYTES_LEN + 2 * CHUNK_HEADER_BYTES_LEN + bs + WordBytes * (k - 1) :
        k \in 0..(MaxExtra + 1) }

\* split run on the sparse file of a valid image
InitSplit ==
    /\ image \in Images
    /\ file = FileOf(image)
    /\ filepos = 0
    /\ header = None
    /\ todo = 0
    /\ output = <<>>
    /\ outpos = 0
    /\ tpc = "split"
    /\ status = None
    /\ chunks = <<>>
    /\ split_size \in SplitSizes(image.block_size)
    /\ splits = <<>>
    /\ outs = <<>>
    /\ interface = Gadget(1)
    /\ opened = None
    /\ max_out = 0
    /\ Pristine

SplitNext == SplitOpen \/ SplitScan \/ SplitPlan \/ SplitWrite \/ SplitDone

SpecSplit == InitSplit /\ [][SplitNext]_vars

(* ======================================================================= *)
(*                              properties                                 *)
(* ======================================================================= *)
Last(s) == s[Len(s)]

Range(s) == {s[i] : i \in 1..Len(s)}

\* responses that do not end a loop
Passing == {"Info", "Text"}

\* the call in progress (or the last one) has returned
Returned == result # None

\* every read but the latest was an INFO or a TEXT
OnlyLastEnds == \A i \in 1..(Len(reads) - 1) : reads[i].kind \in Passing

\* the latest read was of this kind
LastIs(kind) == reads # <<>> /\ Last(reads).kind = kind

\* the events of this kind among the call's USB events
Events(ev) == {i \in 1..Len(usb) : usb[i].ev = ev}

ReadKinds == [i \in 1..Len(reads) |-> reads[i].kind]

Value == <<"v", "a", "l", "u", "e">>

\* C1: a command issued through execute (get_var, flash, erase, reboot,
\* reboot_bootloader) is decided by the first response that is neither INFO
\* nor TEXT: OKAY(v) returns v from execute (the wrappers other than get_var
\* map it to ()), FAIL(r) returns FastbootFailed(r), DATA returns
\* FastbootUnexpectedReply; while only INFO and TEXT have arrived, however
\* many, the command has not returned.
C1_ExecuteDecidedByFirstTerminal ==
    op.fn \in ExecuteFns =>
        /\ OnlyLastEnds
        /\ (reads # <<>> /\ Last(reads).kind \in Passing) => ~Returned
        /\ LastIs("Okay") =>
              /\ ret = OkStr(Last(reads).text)
              /\ result = IF op.fn = "get_var" THEN OkStr(Last(reads).text) ELSE OkUnit
        /\ LastIs("Fail") =>
              /\ ret = FastbootFailed(Last(reads).text)
              /\ result = FastbootFailed(Last(reads).text)
        /\ LastIs("Data") =>
              /\ ret = FastbootUnexpectedReply
              /\ result = FastbootUnexpectedReply

\* flash: INFO, TEXT, then FAIL(r) ended it with FastbootFailed(r)
C1_Witness ==
    /\ op.fn = "flash"
    /\ ReadKinds = <<"Info", "Text", "Fail">>
    /\ result = FastbootFailed(<<"r">>)

\* C2: execute submits the serialized command as exactly one bulk-out before
\* its first bulk-in, then one bulk-in per response; no read follows the
\* first terminal response (INFO, INFO, OKAY value: three reads, "value"
\* returned), and no read is issued when the command's bulk-out failed.
C2_ExecuteTransferOrder ==
    op.fn \in ExecuteFns =>
        /\ pc = "send" => usb = <<>>
        /\ pc # "send" =>
              /\ Events("bulk_out") = {1}
              /\ usb[1].bytes = Serialize(op.cmd)
        /\ \A i \in 2..Len(usb) : usb[i].ev = "bulk_in"
        /\ Cardinality(Events("bulk_in")) = Len(reads)
        /\ OnlyLastEnds
        /\ (reads # <<>> /\ Last(reads).kind \notin Passing) => Returned
        /\ (usb # <<>> /\ usb[1].st = "err") =>
              /\ Events("bulk_in") = {}
              /\ reads = <<>>
              /\ result = Transfer
        /\ ReadKinds = <<"Info", "Info", "Okay">> /\ Last(reads).text = Value =>
              /\ Cardinality(Events("bulk_in")) = 3
              /\ ret = OkStr(Value)

\* get_var: INFO, INFO, OKAY value took one bulk-out and three bulk-in
C2_Witness ==
    /\ op.fn = "get_var"
    /\ ReadKinds = <<"Info", "Info", "Okay">>
    /\ Len(usb) = 4
    /\ result = OkStr(Value)

\* a payload buffer has been submitted for the download in progress
PayloadSubmitted == submitted # <<>> \/ queue # <<>> \/ Events("submit") # {}

\* C3: download(size) sends the Download command and reads until the first
\* response that is neither INFO nor TEXT; only DATA(n) yields a streamer;
\* OKAY yields FastbootUnexpectedReply and FAIL(r) yields FastbootFailed(r),
\* and then no streamer exists and no payload transfer is submitted.
C3_DownloadOnlyDataYieldsStreamer ==
    /\ op.fn = "download" =>
        /\ pc # "send" /\ usb # <<>> => usb[1] = BulkOut(Serialize(Download(requested)), usb[1].st)
        /\ OnlyLastEnds
        /\ (reads # <<>> /\ Last(reads).kind \in Passing) => ~Returned
        /\ exists <=> LastIs("Data")
        /\ LastIs("Data") => result = OkStreamer
        /\ LastIs("Okay") => result = FastbootUnexpectedReply
        /\ LastIs("Fail") => result = FastbootFailed(Last(reads).text)
        /\ ~PayloadSubmitted
    /\ PayloadSubmitted => op.fn \in {"extend_from_slice", "get_mut_data", "finish"}
    /\ exists => op.fn \in {"download", "extend_from_slice", "get_mut_data", "finish"}

\* download answered INFO, OKAY: an error, no streamer, nothing submitted
C3_Witness ==
    /\ op.fn = "download"
    /\ ReadKinds = <<"Info", "Okay">>
    /\ result = FastbootUnexpectedReply
    /\ ~exists
    /\ ~PayloadSubmitted

\* C4: with no USB transfer failing and the device answering OKAY, finish
\* succeeds if and only if the lengths accepted by the preceding
\* extend_from_slice / get_mut_data calls sum to exactly size; with left > 0
\* it returns IncorrectDataLength{expected: size, actual: size - left}
\* without submitting current, awaiting a completion or reading a response.
C4_FinishSucceedsIffSumIsSize ==
    (/\ op.fn = "finish"
     /\ Returned
     /\ ~failed
     /\ reads # <<>> => Last(reads).kind = "Okay") =>
        /\ result = OkUnit <=> accepted = size
        /\ op.left > 0 =>
              /\ result = IncorrectDataLength(size, size - op.left)
              /\ usb = <<>>
              /\ reads = <<>>
              /\ Len(queue) = op.pending
              /\ Len(current) = op.len

\* C5: each extend_from_slice call up to the first whose length raises the
\* cumulative total above size passes the length check, and that first
\* overrunning call fails with IncorrectDataLength{expected: size, actual: T},
\* T the exact cumulative total including the call, for all sizes and lengths.
C5_OverrunFailsWithExactTotal ==
    (op.fn = "extend_from_slice" /\ op.before = size - op.left) =>
        IF op.before + op.len > size
        THEN result = IncorrectDataLength(size, op.before + op.len)
        ELSE result.tag # "Panic" /\ (result.tag = "Err" => result = Transfer)

\* a positive multiple of the OUT endpoint's max packet size
PacketMultiple(n) == n > 0 /\ n % max_out = 0

\* C6: every buffer submitted to the bulk-out queue has a length that is a
\* positive multiple of max_out, except possibly the last one, submitted by
\* finish; a rotation (next_buffer) never submits a short or empty buffer.
C6_SubmittedArePacketMultiples ==
    \A i \in 1..Len(submitted) :
        /\ submitted[i].by = "next_buffer" => PacketMultiple(Len(submitted[i].bytes))
        /\ i < Len(submitted) => PacketMultiple(Len(submitted[i].bytes))
        /\ submitted[i].by = "finish" => i = Len(submitted) /\ submitted[i].bytes # <<>>

\* finish succeeded after rotations, its own buffer a short one
C6_Witness ==
    /\ op.fn = "finish"
    /\ result = OkUnit
    /\ max_out > 1
    /\ Len(submitted) >= 3
    /\ Last(submitted).by = "finish"
    /\ Len(Last(submitted).bytes) % max_out # 0

\* C7: at most three bulk-out transfers of a streamer are in flight
\* (submitted and not yet returned by next_complete) at any time, the submit
\* of the final buffer inside finish included.
C7_AtMostThreeInFlight == Len(queue) <= QueueDepth

\* C8: finish with left = 0 submits current if and only if it is non-empty,
\* then awaits completions until none is pending, and only then reads the
\* first response; it returns Ok only when the response pass ends in OKAY
\* and FastbootFailed when it ends in FAIL; when an awaited completion
\* reports an error it returns that error and reads no response.
C8_FinishOrder ==
    (op.fn = "finish" /\ op.left = 0) =>
        LET subs == Events("submit")
            ncs == Events("next_complete")
            ins == Events("bulk_in")
        IN  /\ subs = IF op.len > 0 THEN {1} ELSE {}
            /\ \A i \in ncs, j \in ins : i < j
            /\ ins # {} =>
                  /\ queue = <<>>
                  /\ Cardinality(ncs) = op.pending + Cardinality(subs)
                  /\ \A i \in ncs : usb[i].st = "ok"
            /\ Cardinality(ins) = Len(reads)
            /\ pc = "handle_responses" => queue = <<>>
            /\ result.tag = "Ok" => result = OkUnit /\ LastIs("Okay")
            /\ LastIs("Okay") => result = OkUnit
            /\ LastIs("Fail") => result = FastbootFailed(Last(reads).text)
            /\ (\E i \in ncs : usb[i].st = "err") =>
                  /\ result = Transfer
                  /\ ins = {}
                  /\ reads = <<>>

\* finish found three transfers pending and a non-empty current, drained
\* all four and took the device's OKAY
C8_Witness ==
    /\ op.fn = "finish"
    /\ op.left = 0
    /\ op.len > 0
    /\ op.pending = 3
    /\ Cardinality(Events("next_complete")) = 4
    /\ result = OkUnit

\* C9: every USB transfer failure during a client operation surfaces as a
\* Transfer error: the command's bulk-out, each response bulk-in, each
\* awaited payload completion; no failure is parsed or ignored.
C9_TransferFailureSurfaces ==
    (Returned /\ \E i \in 1..Len(usb) : usb[i].st = "err") => result = Transfer

\* the reads that are INFO lines holding a colon
ColonLines == {i \in 1..Len(reads) : reads[i].kind = "Info" /\ ":" \in Range(reads[i].text)}

\* s without the blanks at its ends
Strip(s) ==
    LET solid == {i \in 1..Len(s) : s[i] # " "}
    IN  IF solid = {} THEN <<>> ELSE SubSeq(s, Min1(solid), Max(solid))

\* of a line holding a colon: the text before its last colon and the text
\* after it, without the blanks at their ends
LastColon(s) == CHOOSE p \in 1..Len(s) : s[p] = ":" /\ \A q \in (p + 1)..Len(s) : s[q] # ":"
KeyOf(i) == Strip(SubSeq(reads[i].text, 1, LastColon(reads[i].text) - 1))
ValueOf(i) ==
    Strip(SubSeq(reads[i].text, LastColon(reads[i].text) + 1, Len(reads[i].text)))

\* for each key, the value of the last INFO line read that has this key
ExpectedVars ==
    [k \in {KeyOf(i) : i \in ColonLines} |->
        ValueOf(Max({i \in ColonLines : KeyOf(i) = k}))]

\* C10: get_all_vars issues GetVar("all") and returns on the first OKAY the
\* map holding, for each key, the value of the last INFO line with a colon
\* read before it (key: text before the last colon, value: text after it,
\* both trimmed); INFO lines without a colon and TEXT add nothing and do not
\* end the command; DATA ends it with FastbootUnexpectedReply and FAIL(r)
\* with FastbootFailed(r), and no map is returned.
C10_GetAllVarsMap ==
    op.fn = "get_all_vars" =>
        /\ usb # <<>> => usb[1].bytes = [text |-> <<"getvar:", "a", "l", "l">>, hex8 |-> -1]
        /\ OnlyLastEnds
        /\ (reads # <<>> /\ Last(reads).kind \in Passing) => ~Returned
        /\ DOMAIN varsMap = DOMAIN ExpectedVars
        /\ \A k \in DOMAIN varsMap : varsMap[k] = ExpectedVars[k]
        /\ LastIs("Okay") => result = OkMap(varsMap)
        /\ LastIs("Data") => result = FastbootUnexpectedReply
        /\ LastIs("Fail") => result = FastbootFailed(Last(reads).text)
        /\ result.tag = "Ok" => LastIs("Okay")
        /\ (reads # <<>> /\ reads[1].text = <<" ", "a", ":", "b", ":", " ", "c", " ">>
               /\ reads[1].kind = "Info") =>
              /\ <<"a", ":", "b">> \in DOMAIN varsMap
              /\ varsMap[<<"a", ":", "b">>] = <<"c">>

\* "a:b", then "a:c", then OKAY: the map holds a -> c
C10_Witness ==
    /\ op.fn = "get_all_vars"
    /\ Len(reads) = 3
    /\ reads[1].text = <<"a", ":", "b">>
    /\ reads[2].text = <<"a", ":", "c">>
    /\ LastIs("Okay")
    /\ result.tag = "Ok"
    /\ DOMAIN result.map = {<<"a">>}
    /\ result.map[<<"a">>] = <<"c">>

(* ------------------------- streamer: byte stream ----------------------- *)
\* the bytes of the buffers in q, in order
RECURSIVE Concat(_)
Concat(q) == IF q = <<>> THEN <<>> ELSE Head(q).bytes \o Concat(Tail(q))

\* finish() returned Ok
FinishOk == op.fn = "finish" /\ result = OkUnit

\* C17: after a successful finish the buffers submitted to the bulk-out
\* queue, concatenated in submission order, are the bytes the caller
\* supplied through extend_from_slice and get_mut_data, in call order, and
\* there are exactly size of them.
C17_SubmittedStreamIsSupplied ==
    FinishOk =>
        /\ Concat(submitted) = Bytes(0, accepted)
        /\ Len(Concat(submitted)) = size

\* get_mut_data returned
GetMutDataReturned == op.fn = "get_mut_data" /\ result # None

\* the call rotated the buffer: next_buffer reaped or submitted a transfer
Rotated == usb # <<>>

\* the length of the current buffer when get_mut_data sizes its slice
LenAtSlice == IF op.len = capacity THEN 0 ELSE op.len

\* the length of the slice get_mut_data(op.max) hands out
SliceLength == Min(capacity - LenAtSlice, op.max)

IsIncorrectDataLength(r) == r.tag = "Err" /\ r.err = "IncorrectDataLength"

\* C18: get_mut_data(max) rotates the current buffer iff it is full; on
\* success it returns a slice of exactly min(capacity - len, max) bytes at
\* the tail of the current buffer and decrements left by that length, which
\* never exceeds left before the call; a call whose slice would exceed left
\* fails with IncorrectDataLength and leaves left and the length of the
\* current buffer as they were.
C18_GetMutDataSliceAndFrame ==
    GetMutDataReturned =>
        /\ Rotated <=> op.len = capacity
        /\ result.tag = "Ok" =>
              /\ result.slice = SliceLength
              /\ result.slice <= op.left
              /\ left = op.left - result.slice
              /\ Len(current) = LenAtSlice + result.slice
              /\ SubSeq(current, LenAtSlice + 1, Len(current))
                     = Bytes(op.before, result.slice)
        /\ (SliceLength > op.left /\ result # Transfer) =>
              /\ IsIncorrectDataLength(result)
              /\ left = op.left
              /\ Len(current) = op.len

\* a call on the streamer returned IncorrectDataLength
LengthCheckFailed ==
    /\ op.fn \in {"extend_from_slice", "get_mut_data", "finish"}
    /\ IsIncorrectDataLength(result)

\* C19: download does not compare the device's DATA(n) with the size it
\* asked for: on DATA(n) it returns a streamer for every n, with
\* size() = left() = n at creation; the streamer's total stays n, and every
\* later length check (overrun, finish) is made against it.
C19_StreamerTotalIsDeviceSize ==
    /\ [](op.fn = "download" /\ LastIs("Data") =>
             /\ result = OkStreamer
             /\ exists
             /\ size = Last(reads).num
             /\ left = Last(reads).num)
    /\ [][exists /\ exists' => size' = size]_vars
    /\ [](LengthCheckFailed =>
             /\ result.expected = size
             /\ op.fn = "finish" => op.left # 0 /\ result.actual = size - op.left
             /\ op.fn = "extend_from_slice" => AsU32(op.len) > op.left
             /\ op.fn = "get_mut_data" => SliceLength > op.left)

\* the caller asked for MaxSize bytes, the device announced SmallSize, and a
\* slice longer than SmallSize but shorter than MaxSize was refused
C19_Witness ==
    /\ requested = MaxSize
    /\ size = SmallSize
    /\ op.fn = "extend_from_slice"
    /\ op.len > SmallSize /\ op.len < MaxSize
    /\ op.before = 0
    /\ result = IncorrectDataLength(SmallSize, op.len)

\* extend_from_slice or get_mut_data returned Ok
SupplyOk == op.fn \in {"extend_from_slice", "get_mut_data"} /\ result.tag = "Ok"

\* C20: after every extend_from_slice or get_mut_data that returns
\* successfully, size - left is the total length of the buffers submitted
\* so far plus the length of the current buffer, 0 <= left <= size, and the
\* current buffer is no longer than its capacity, which is still the
\* packet-size multiple the streamer was created with.
C20_ByteAccounting ==
    SupplyOk =>
        /\ size - left = Len(Concat(submitted)) + Len(current)
        /\ 0 <= left /\ left <= size
        /\ Len(current) <= capacity
        /\ capacity = AllocateBuffer(max_out)
        /\ capacity % max_out = 0

\* extend_from_slice is called and update_size refuses the length at once
RefusedExtendStep ==
    /\ pc = "idle"
    /\ op'.fn = "extend_from_slice"
    /\ IsIncorrectDataLength(result')

\* C21: an extend_from_slice call that fails with IncorrectDataLength is
\* refused before anything is touched: over the call left, the current
\* buffer, its capacity, the queue of pending transfers, the submitted
\* buffers and the accepted total are unchanged, no transfer is issued and
\* the streamer stays; every length beyond left is refused (or panics while
\* the error is built), and a finish that follows a refused call is judged
\* on left alone, as after any other call.
C21_RefusedExtendChangesNothing ==
    /\ [][RefusedExtendStep =>
              /\ UNCHANGED << exists, size, left, current, capacity, queue,
                              submitted, accepted, data, failed, client >>
              /\ usb' = <<>>
              /\ pc' = "idle"]_vars
    /\ [](op.fn = "extend_from_slice" /\ result # None =>
              /\ IsIncorrectDataLength(result) =>
                    /\ AsU32(op.len) > op.left
                    /\ left = op.left
                    /\ accepted = op.before
                    /\ usb = <<>>
              /\ AsU32(op.len) > op.left =>
                    IsIncorrectDataLength(result) \/ result = Panic)
    /\ [](op.fn = "finish" /\ op.refused /\ result # None =>
              /\ IsIncorrectDataLength(result) <=> op.left # 0
              /\ result = OkUnit => left = 0 /\ LastIs("Okay"))

\* a declared size was supplied in full with part of it still in the current
\* buffer and part submitted, a further extend_from_slice was refused, and
\* the finish called next went through
C21_Witness ==
    /\ FinishOk
    /\ op.refused
    /\ op.left = 0
    /\ op.len > 0
    /\ op.pending > 0
    /\ accepted = size

(* ------------------------- client: liveness ---------------------------- *)
\* an execute call has been made and has not returned
ExecuteInProgress == op.fn \in ExecuteFns /\ pc # "idle"

\* a finish call that passed its length check has not returned
FinishInProgress == op.fn = "finish" /\ op.left = 0 /\ pc \notin {"idle", "panicked"}

\* execute returns on this step
ExecuteReturns == op.fn \in ExecuteFns /\ pc = "handle_responses" /\ pc' = "idle"

ExecuteEventuallyReturns == ExecuteInProgress ~> (pc = "idle")

FinishEventuallyReturns == FinishInProgress ~> (pc = "idle")

FinishLeavesNothingInFlight ==
    [](op.fn = "finish" /\ op.left = 0 /\ result # None => queue = <<>>)

ExecuteReturnsOnlyOnAnEnd ==
    [][ExecuteReturns => reads'[Len(reads')].kind \notin Passing]_vars

IsBulk(e, dir) == e.transfer_type = "Bulk" /\ e.direction = dir

\* the number of bulk endpoints of a direction in an alternate setting
BulkCount(alt, dir) == Cardinality({ i \in 1..Len(alt) : IsBulk(alt[i], dir) })

ExactlyOnePair(alt) == BulkCount(alt, "Out") = 1 /\ BulkCount(alt, "In") = 1

\* the endpoints recorded in opened are the first bulk OUT and the first
\* bulk IN of alternate setting a
RecordsFirstOf(a) ==
    \E i, j \in 1..Len(interface[a]) :
        /\ IsBulk(interface[a][i], "Out")
        /\ \A k \in 1..(i - 1) : ~IsBulk(interface[a][k], "Out")
        /\ IsBulk(interface[a][j], "In")
        /\ \A k \in 1..(j - 1) : ~IsBulk(interface[a][k], "In")
        /\ opened.ep_out = interface[a][i].address
        /\ opened.max_out = interface[a][i].max_packet_size
        /\ opened.ep_in = interface[a][j].address
        /\ opened.max_in = interface[a][j].max_packet_size

\* C11 as stated: from_interface selects the first alternate setting with
\* exactly one bulk OUT and exactly one bulk IN endpoint and records those
\* two; a setting with more than one bulk endpoint in a direction is never
\* selected; with no such setting it fails with MissingEndpoints.
C11_SelectsExactlyOnePair ==
    opened # None =>
        IF \A a \in 1..Len(interface) : ~ExactlyOnePair(interface[a])
        THEN opened = MissingEndpoints
        ELSE /\ opened.tag = "Ok"
             /\ \E a \in 1..Len(interface) :
                    /\ ExactlyOnePair(interface[a])
                    /\ \A b \in 1..(a - 1) : ~ExactlyOnePair(interface[b])
                    /\ RecordsFirstOf(a)

\* C11 amended: from_interface selects the first alternate setting that has
\* at least one bulk OUT and at least one bulk IN endpoint, and records the
\* address and max packet size of the first bulk endpoint of each direction
\* in descriptor order (further bulk endpoints do not disqualify a setting);
\* it fails with MissingEndpoints exactly when every setting lacks a bulk
\* endpoint in some direction.
C11_SelectsFirstBulkPair ==
    opened # None =>
        IF \A a \in 1..Len(interface) :
               BulkCount(interface[a], "Out") = 0 \/ BulkCount(interface[a], "In") = 0
        THEN opened = MissingEndpoints /\ max_out = 0
        ELSE /\ opened.tag = "Ok"
             /\ max_out = opened.max_out
             /\ \E a \in 1..Len(interface) :
                    /\ BulkCount(interface[a], "Out") >= 1
                    /\ BulkCount(interface[a], "In") >= 1
                    /\ \A b \in 1..(a - 1) :
                           BulkCount(interface[b], "Out") = 0
                               \/ BulkCount(interface[b], "In") = 0
                    /\ RecordsFirstOf(a)

\* from_interface returned the first of two bulk OUT endpoints of the second
\* alternate setting, the first setting having no bulk IN
C11_Witness ==
    /\ Len(interface) = 2
    /\ BulkCount(interface[1], "In") = 0
    /\ BulkCount(interface[2], "Out") = 2
    /\ opened.tag = "Ok"
    /\ opened.ep_out = interface[2][1].address
    /\ opened.ep_in = 129

(* -------------------------- expand: properties ------------------------- *)
\* the input file is the whole sparse file of its image
WholeFile == file = FileOf(image)

\* the chunks expand has gone through
Processed == header.chunks - todo

\* where the header of chunk i + 1 starts in the file of img, in words
RECURSIVE HeaderStart(_, _)
HeaderStart(img, i) ==
    IF i = 0 THEN FILE_HEADER_BYTES_LEN \div WordBytes
    ELSE HeaderStart(img, i - 1)
            + (CHUNK_HEADER_BYTES_LEN + PayloadBytes(img.chunks[i], img.block_size))
                  \div WordBytes

\* C12: after expand returns successfully on a valid image, the output is
\* exactly block_size * blocks bytes long, also when the image ends with a
\* DontCare chunk and whatever the output path held before.
C12_ExpandedLengthExact ==
    (tpc = "done" /\ WholeFile /\ status = OkUnit) =>
        Len(output) * WordBytes = image.block_size * SumBlocks(image.chunks)

\* C13: expand consumes the four payload bytes of a Crc32 chunk, writes
\* nothing for it and does not fail, so that after every chunk of a valid
\* image the input position is the start of the next chunk header.
C13_InputAtNextHeader ==
    WholeFile =>
        /\ tpc = "expand_chunks" => filepos = HeaderStart(image, Processed)
        /\ tpc = "done" => status = OkUnit

\* C14: expand fails on an input cut short, wherever the cut falls: it never
\* reports success after a short header, a short Fill or Crc32 payload, or
\* after copying fewer bytes than a Raw chunk declares.
C14_TruncatedInputFails ==
    (tpc = "done" /\ Len(file) < Len(FileOf(image))) => status.tag = "Err"

(* -------------------------- split: properties -------------------------- *)
\* the words of file f from position pos on, n of them
Words(f, pos, n) == SubSeq(f, pos + 1, pos + n)

HeaderWords == FILE_HEADER_BYTES_LEN \div WordBytes
ChunkHeaderWords == CHUNK_HEADER_BYTES_LEN \div WordBytes

\* the chunk header a sparse file f holds at position pos
ChunkAt(f, pos) == ChunkHeaderFromBytes(Words(f, pos, ChunkHeaderWords))

\* where the n chunks that start at position pos of f end; -1 when one of
\* them does not decode or runs past the end of f
RECURSIVE ChunksEnd(_, _, _)
ChunksEnd(f, pos, n) ==
    IF n = 0 THEN pos
    ELSE IF pos + ChunkHeaderWords > Len(f) \/ ChunkAt(f, pos).tag # "Ok" THEN 0 - 1
    ELSE LET next == pos + ChunkAt(f, pos).total_size \div WordBytes
         IN  IF next > Len(f) THEN 0 - 1 ELSE ChunksEnd(f, next, n - 1)

\* f is a sparse file: a file header, then exactly the chunks it announces
IsSparseFile(f) ==
    /\ Len(f) >= HeaderWords
    /\ FileHeaderFromBytes(Words(f, 0, HeaderWords)).tag = "Ok"
    /\ ChunksEnd(f, HeaderWords, FileHeaderFromBytes(Words(f, 0, HeaderWords)).chunks)
           = Len(f)

\* what the n chunks at position pos of f put into the blocks they stand
\* for, block by block: the words of a Raw block, the pattern of a Fill
\* block (after a 0), nothing for a DontCare block
RECURSIVE BlockMap(_, _, _, _)
BlockMap(f, pos, n, bw) ==
    IF n = 0 THEN <<>>
    ELSE LET c == ChunkAt(f, pos)
             at == pos + ChunkHeaderWords
             blocks ==
                 [b \in 1..c.chunk_size |->
                     CASE c.chunk_type = Raw -> Words(f, at + (b - 1) * bw, bw)
                       [] c.chunk_type = Fill -> << 0, f[at + 1] >>
                       [] OTHER -> <<>>]
         IN  blocks \o BlockMap(f, pos + c.total_size \div WordBytes, n - 1, bw)

\* the block map of a sparse file
BlocksOf(f) ==
    LET h == FileHeaderFromBytes(Words(f, 0, HeaderWords))
    IN  BlockMap(f, HeaderWords, h.chunks, h.block_size \div WordBytes)

\* the blocks fragment file i stands for after its leading DontCare
Own(i) ==
    Len(BlocksOf(outs[i]))
        - (IF i = 1 THEN 0 ELSE ChunkAt(outs[i], HeaderWords).chunk_size)

RECURSIVE CoveredBefore(_)
CoveredBefore(i) == IF i = 1 THEN 0 ELSE CoveredBefore(i - 1) + Own(i - 1)

SplitOk == tpc = "done" /\ status = OkUnit

\* C15: every fragment file split writes for a valid image, with a size at
\* or above the smallest feasible one, is a sparse file of at most size
\* bytes (file header, chunk headers and payloads); with a smaller size
\* split fails and writes no fragment.
C15_FragmentsWithinBudget ==
    /\ \A i \in 1..Len(outs) :
          /\ IsSparseFile(outs[i])
          /\ Len(outs[i]) * WordBytes <= split_size
    /\ tpc = "done" =>
          IF split_size < FILE_HEADER_BYTES_LEN + 2 * CHUNK_HEADER_BYTES_LEN
                              + image.block_size
          THEN status.tag = "Err" /\ outs = <<>>
          ELSE status = OkUnit /\ (image.chunks # <<>> => outs # <<>>)

\* split cut a Raw chunk: three fragment files, the second exactly size
\* bytes long
C15_Witness ==
    /\ SplitOk
    /\ Len(outs) = 3
    /\ Len(image.chunks) = 2
    /\ image.chunks[1] = [chunk_type |-> Raw, chunk_size |-> MaxBlocks]
    /\ Len(outs[2]) * WordBytes = split_size

\* C16: in the files split writes, the first fragment starts at block 0 with
\* the first chunk of the source, and every later fragment starts with a
\* DontCare chunk without payload whose chunk_size is the number of blocks
\* the fragments before it cover, so that its own blocks hold what the
\* source holds at the same block numbers; the blocks covered by all the
\* fragments are the blocks of the source.
C16_LeadingDontCareIsOffset ==
    SplitOk =>
        /\ \A i \in 1..Len(outs) :
              LET start == CoveredBefore(i)
                  mine == BlocksOf(outs[i])
              IN  /\ i = 1 =>
                        ChunkAt(outs[1], HeaderWords).chunk_type
                            = image.chunks[1].chunk_type
                  /\ i > 1 =>
                        ChunkAt(outs[i], HeaderWords)
                            = ChunkHeader(DontCare, start, CHUNK_HEADER_BYTES_LEN)
                  /\ Len(mine) = start + Own(i)
                  /\ FileHeaderFromBytes(Words(outs[i], 0, HeaderWords)).blocks
                        = Len(mine)
                  /\ \A b \in 1..start : mine[b] = <<>>
                  /\ \A b \in (start + 1)..Len(mine) : mine[b] = BlocksOf(file)[b]
        /\ outs # <<>> =>
              CoveredBefore(Len(outs)) + Own(Len(outs)) = SumBlocks(image.chunks)
        /\ outs = <<>> => image.chunks = <<>>

\* a Raw chunk of MaxBlocks blocks cut into fragments of one block, and the
\* third fragment led by a DontCare of two blocks
C16_Witness ==
    /\ SplitOk
    /\ Len(outs) >= 3
    /\ image.chunks[1] = [chunk_type |-> Raw, chunk_size |-> MaxBlocks]
    /\ ChunkAt(outs[1], HeaderWords).chunk_type = Raw
    /\ ChunkAt(outs[2], HeaderWords) = ChunkHeader(DontCare, 1, CHUNK_HEADER_BYTES_LEN)
    /\ ChunkAt(outs[3], HeaderWords) = ChunkHeader(DontCare, 2, CHUNK_HEADER_BYTES_LEN)
====
